---- MODULE Spec2Model ----
(***************************************************************************)
(* A model of the pattern based timetable optimizer of optimize_courses.py *)
(* (class PatternBasedOptimizer): construction, run(), the interactive     *)
(* menu and the edit session.  Courses are records; a timetable is a       *)
(* sequence of positions in all_courses, in the order the code appends.    *)
(* Weekdays are written Mon..Sun for the source's "月".."日".               *)
(***************************************************************************)
EXTENDS Integers, Sequences, FiniteSets, TLC

VARIABLES
    all_courses,        \* self.all_courses: the catalog, in file order
    patterns,           \* self.patterns: the pattern library, in insertion order
    settings,           \* self.settings: constraints and optimizer_settings
    mandatory_courses,  \* self.mandatory_courses
    pattern_scores,     \* self.pattern_scores: one entry per scored pattern
    pattern_keys,       \* run(): the keys _select_best_patterns returned
    key_pos,            \* run(): position of the for-loop over pattern_keys
    initial_timetable,  \* _build_initial_timetable's result for the current key
    final_strict,       \* _fill_remaining_credits: final_strict
    vars_strict,        \* _fill_remaining_credits: vars_strict
    variations,         \* run(): what _fill_remaining_credits returned
    used_relaxed,       \* whether the current key's variations are vars_loose
    unique_candidates,  \* run(): unique_candidates
    seen_grids,         \* run(): seen_grids
    swap_report,        \* _display_results: the swap lists it computed
    current_courses,    \* _edit_candidate: current_courses
    selected,           \* _interactive_mode: candidate index being edited (0: none)
    list_report,        \* _edit_candidate, list: what the command printed
    last_cmd,           \* the edit command handled last and its outcome
    saved,              \* _export_to_ics: the course list it was given
    stdin_left,         \* console lines not read yet
    outcome,            \* what run() reported
    pc                  \* position in run() / the console loops

vars == <<all_courses, patterns, settings, mandatory_courses, pattern_scores,
          pattern_keys, key_pos, initial_timetable, final_strict, vars_strict,
          variations, used_relaxed, unique_candidates, seen_grids, swap_report,
          current_courses, selected, list_report, last_cmd, saved, stdin_left,
          outcome, pc>>

-----------------------------------------------------------------------------
(* Bounds of the model *)

\* random.random() is drawn from {0, 1/RandLevels, ..., (RandLevels-1)/RandLevels}
RandLevels == 2
\* the longest console input of a run, in lines
MaxCmds == 4

-----------------------------------------------------------------------------
(* Sequence helpers *)

Range(s) == {s[i] : i \in 1..Len(s)}

RECURSIVE SeqSum(_)
SeqSum(s) == IF s = <<>> THEN 0 ELSE Head(s) + SeqSum(Tail(s))

\* the orders in which a Python set can be iterated
Orders(S) == {s \in [1..Cardinality(S) -> S] : Range(s) = S}

-----------------------------------------------------------------------------
(* Course *)

Course(no, subject, level, credits, schedule) ==
    [no |-> no, subject |-> subject, level |-> level,
     credits |-> credits, schedule |-> schedule]

\* {(d, p) for d, p, _ in course.schedule}
SlotsOf(course) == {<<t[1], t[2]>> : t \in course.schedule}

\* variant: the exception flag takes part in the comparison
conflicts_with_flag(a, b) == a.schedule \cap b.schedule # {}

conflicts_with(a, b) == SlotsOf(a) \cap SlotsOf(b) # {}

\* the Course at a catalog position
C(i) == all_courses[i]

Nos(tt) == {C(tt[i]).no : i \in 1..Len(tt)}

Credits(tt) == SeqSum([i \in 1..Len(tt) |-> C(tt[i]).credits])

\* self.course_map = {c.no: c for c in all_courses}: the last row of a number wins
InCourseMap(no) == \E i \in 1..Len(all_courses) : C(i).no = no

course_map(no) ==
    CHOOSE i \in 1..Len(all_courses) :
        /\ C(i).no = no
        /\ \A j \in 1..Len(all_courses) : C(j).no = no => j <= i

\* variant: no conflict is ever reported
_check_conflict_none(tt) == FALSE

_check_conflict(tt) ==
    \E i \in 1..Len(tt) : \E j \in (i + 1)..Len(tt) :
        conflicts_with(C(tt[i]), C(tt[j]))

-----------------------------------------------------------------------------
(* Settings: __init__ unpacks them (lines 97-123) *)

\* the tokens of the model for which s.isalpha() and s.isupper() holds
AlphaUpper == {"GEC", "MTH", "PHY"}

mandatory_nos == settings.mandatory_nos
max_credits == settings.max_credits
min_credits == settings.min_credits
desired_nos == settings.desired_nos
unavailable_slots == settings.unavailable_slots
temperature == settings.temperature
max_candidates == settings.max_candidates

excluded_prefixes == {s \in settings.excluded_nos : s \in AlphaUpper}
excluded_exact_nos == settings.excluded_nos \ excluded_prefixes

mandatory_schedule ==
    UNION {SlotsOf(C(mandatory_courses[i])) : i \in 1..Len(mandatory_courses)}

\* the lists _get_courses_by_nos can return for a set of numbers
_get_courses_by_nos(nos) ==
    {[k \in 1..Len(o) |-> course_map(o[k])] :
        o \in Orders({no \in nos : InCourseMap(no)})}

_is_course_valid(course) ==
    IF course.no \in excluded_exact_nos \/ course.subject \in excluded_prefixes
    THEN FALSE
    ELSE IF course.subject \in settings.major_codes
         THEN settings.major_min <= course.level /\ course.level <= settings.major_max
         ELSE settings.other_min <= course.level /\ course.level <= settings.other_max

Abs(x) == IF x < 0 THEN -x ELSE x

\* variant: the two level tests are independent, both bonuses can apply
ScoreOfBoth(course) ==
    1
    + (IF course.subject \in settings.priority_subjects THEN 10 ELSE 0)
    + (IF course.subject \in DOMAIN settings.level_priorities
       THEN (IF course.level = settings.level_priorities[course.subject] THEN 5 ELSE 0)
            + (IF Abs(course.level - settings.level_priorities[course.subject]) <= 100
               THEN 2 ELSE 0)
       ELSE 0)

\* the score _score_courses computes for one course
ScoreOf(course) ==
    1
    + (IF course.subject \in settings.priority_subjects THEN 10 ELSE 0)
    + (IF course.subject \in DOMAIN settings.level_priorities
       THEN IF course.level = settings.level_priorities[course.subject] THEN 5
            ELSE IF Abs(course.level - settings.level_priorities[course.subject]) <= 100
                 THEN 2 ELSE 0
       ELSE 0)

\* self.course_scores.get(no, 0): the dict is keyed by number, the last row wins
course_scores(no) == IF InCourseMap(no) THEN ScoreOf(C(course_map(no))) ELSE 0

\* variant: the unavailable slots are never looked at
_is_schedule_allowed_loose(schedule_items, ignore_unavailable, allow_mandatory_override) ==
    \A t \in schedule_items : t[1] \notin settings.off_days

\* variant: the relaxed pass skips the off-day test as well
_is_schedule_allowed_skip_off(schedule_items, ignore_unavailable, allow_mandatory_override) ==
    \/ ignore_unavailable
    \/ \A t \in schedule_items :
           /\ t[1] \notin settings.off_days
           /\ <<t[1], t[2]>> \notin unavailable_slots

_is_schedule_allowed(schedule_items, ignore_unavailable, allow_mandatory_override) ==
    \A t \in schedule_items :
        /\ t[1] \notin settings.off_days
        /\ \/ ignore_unavailable
           \/ <<t[1], t[2]>> \notin unavailable_slots
           \/ (allow_mandatory_override /\ <<t[1], t[2]>> \in mandatory_schedule)

-----------------------------------------------------------------------------
(* _prepare_candidates (lines 600-611) *)

\* variant: the desired set never filters the list
DesiredFilterOff(courses) == courses

\* the list the key function is applied to
DesiredFilter(courses) ==
    IF desired_nos # {} /\ temperature = 0
    THEN SelectSeq(courses, LAMBDA i : C(i).no \in desired_nos)
    ELSE courses

\* the values random.random() can return for each element of a list
DrawsFor(courses) == [1..Len(DesiredFilter(courses)) -> 0..(RandLevels - 1)]

\* variant: the random term is not scaled by the temperature
SortKeyNoisy(i, u) ==
    100 * RandLevels * course_scores(C(i).no)
    + RandLevels * (100 - temperature) * (IF C(i).no \in desired_nos THEN 100 ELSE 0)
    + 100 * u * 20

\* score(c), times 100 * RandLevels so that it is an integer; u / RandLevels is
\* the value random.random() returned
SortKey(i, u) ==
    100 * RandLevels * course_scores(C(i).no)
    + RandLevels * (100 - temperature) * (IF C(i).no \in desired_nos THEN 100 ELSE 0)
    + temperature * u * 20

\* variant: an element goes before the elements of equal key
InsertDescStrict(acc, x) ==
    LET n == Cardinality({k \in 1..Len(acc) : acc[k][2] > x[2]})
    IN  SubSeq(acc, 1, n) \o <<x>> \o SubSeq(acc, n + 1, Len(acc))

\* sorted(..., reverse=True) on <<element, key>> pairs: descending, and stable
InsertDesc(acc, x) ==
    LET n == Cardinality({k \in 1..Len(acc) : acc[k][2] >= x[2]})
    IN  SubSeq(acc, 1, n) \o <<x>> \o SubSeq(acc, n + 1, Len(acc))

RECURSIVE SortDesc(_, _)
SortDesc(acc, rest) ==
    IF rest = <<>> THEN acc ELSE SortDesc(InsertDesc(acc, Head(rest)), Tail(rest))

_prepare_candidates(courses, draws) ==
    LET kept == DesiredFilter(courses)
        keyed == [k \in 1..Len(kept) |-> <<kept[k], SortKey(kept[k], draws[k])>>]
        sorted == SortDesc(<<>>, keyed)
    IN  [k \in 1..Len(sorted) |-> sorted[k][1]]

-----------------------------------------------------------------------------
(* _score_patterns (lines 484-496), one pattern *)

\* variant: the validity test is left out
PatternCoursesKnown(pat) ==
    LET known == SelectSeq(pat.courses, InCourseMap)
    IN  [k \in 1..Len(known) |-> course_map(known[k])]

\* the pattern's courses that are in course_map and valid
PatternCourses(pat) ==
    LET known == SelectSeq(pat.courses,
                     LAMBDA no : InCourseMap(no) /\ _is_course_valid(C(course_map(no))))
    IN  [k \in 1..Len(known) |-> course_map(known[k])]

RECURSIVE GreedyBest(_, _)
GreedyBest(best, courses) ==
    IF courses = <<>> THEN best
    ELSE GreedyBest(IF ~_check_conflict(Append(best, Head(courses)))
                    THEN Append(best, Head(courses)) ELSE best,
                    Tail(courses))

ScoredPattern(pat, draws) ==
    LET best == GreedyBest(<<>>, _prepare_candidates(PatternCourses(pat), draws))
    IN  [score |-> SeqSum([k \in 1..Len(best) |-> course_scores(C(best[k]).no)]),
         courses |-> best]

-----------------------------------------------------------------------------
(* _select_best_patterns (lines 512-543) *)

\* pat_sched: the pattern's slots with the exception flag set to False
PatSched(pat) == {<<item[1], item[2], FALSE>> : item \in pat.schedule}

\* variant: the test against the mandatory courses' slots is left out
PatternEligibleAnyMandatory(k) ==
    _is_schedule_allowed(PatSched(patterns[k]), FALSE, FALSE)

PatternEligible(k) ==
    /\ _is_schedule_allowed(PatSched(patterns[k]), FALSE, FALSE)
    /\ SlotsOf([schedule |-> PatSched(patterns[k])]) \cap mandatory_schedule = {}

\* the positions of the eligible patterns, by descending score, stable
ValidPatterns ==
    LET elig == SelectSeq([k \in 1..Len(patterns) |-> k], PatternEligible)
        keyed == [k \in 1..Len(elig) |-> <<elig[k], pattern_scores[elig[k]].score>>]
        sorted == SortDesc(<<>>, keyed)
    IN  [k \in 1..Len(sorted) |-> sorted[k][1]]

\* <<>> stands for None as well: run() tests "not pattern_keys"
_select_best_patterns ==
    IF _check_conflict(mandatory_courses) THEN <<>> ELSE ValidPatterns

-----------------------------------------------------------------------------
(* _build_initial_timetable (lines 545-553) *)

RECURSIVE BuildLoop(_, _)
BuildLoop(timetable, courses) ==
    IF courses = <<>> THEN timetable
    ELSE LET course == Head(courses)
         IN  BuildLoop(
                 IF Credits(timetable) + C(course).credits > max_credits
                 THEN timetable
                 ELSE IF ~_check_conflict(Append(timetable, course))
                      THEN Append(timetable, course) ELSE timetable,
                 Tail(courses))

_build_initial_timetable(pattern_key) ==
    BuildLoop(mandatory_courses, pattern_scores[pattern_key].courses)

-----------------------------------------------------------------------------
(* _fill_remaining_credits, greedy_fill (lines 555-596) *)

\* variant: only the upper end of the band is tested
InBandMaxOnly(credits) == credits <= max_credits

\* variant: only the lower end of the band is tested
InBandMinOnly(credits) == min_credits <= credits

InBand(credits) == min_credits <= credits /\ credits <= max_credits

\* variant: the validity filter is left out
FillCandidatesAny(base_timetable) ==
    SelectSeq([k \in 1..Len(all_courses) |-> k],
              LAMBDA i : C(i).no \notin Nos(base_timetable))

\* candidates, before _prepare_candidates orders them
FillCandidates(base_timetable) ==
    SelectSeq([k \in 1..Len(all_courses) |-> k],
              LAMBDA i : C(i).no \notin Nos(base_timetable) /\ _is_course_valid(C(i)))

RECURSIVE FillLoop(_, _, _, _)
FillLoop(current_timetable, local_variations, candidates, ignore_unavailable) ==
    IF candidates = <<>>
    THEN [final |-> current_timetable, variations |-> local_variations]
    ELSE LET course == Head(candidates) IN
         IF ~_is_schedule_allowed(C(course).schedule, ignore_unavailable, FALSE)
         THEN FillLoop(current_timetable, local_variations, Tail(candidates),
                       ignore_unavailable)
         ELSE IF Credits(current_timetable) + C(course).credits > max_credits
         THEN FillLoop(current_timetable, local_variations, Tail(candidates),
                       ignore_unavailable)
         ELSE IF ~_check_conflict(Append(current_timetable, course))
         THEN LET grown == Append(current_timetable, course)
              IN  FillLoop(grown,
                           IF InBand(Credits(grown))
                           THEN Append(local_variations, grown)
                           ELSE local_variations,
                           Tail(candidates), ignore_unavailable)
         ELSE FillLoop(current_timetable, local_variations, Tail(candidates),
                       ignore_unavailable)

\* variant: the timetable the pass started from is returned as its final one
greedy_fill_base(base_timetable, ignore_unavailable, draws) ==
    [final |-> base_timetable,
     variations |->
         FillLoop(base_timetable,
                  IF InBand(Credits(base_timetable)) THEN <<base_timetable>> ELSE <<>>,
                  _prepare_candidates(FillCandidates(base_timetable), draws),
                  ignore_unavailable).variations]

greedy_fill(base_timetable, ignore_unavailable, draws) ==
    FillLoop(base_timetable,
             IF InBand(Credits(base_timetable)) THEN <<base_timetable>> ELSE <<>>,
             _prepare_candidates(FillCandidates(base_timetable), draws),
             ignore_unavailable)

-----------------------------------------------------------------------------
(* run(): visual signature of a timetable (lines 162-169) *)

visible_days == {"Mon", "Tue", "Wed", "Thu", "Fri", "Sat"}

\* variant: the display window is not applied
OccupiedAll(timetable) ==
    UNION {SlotsOf(C(timetable[k])) : k \in 1..Len(timetable)}

Occupied(timetable) ==
    {sl \in UNION {SlotsOf(C(timetable[k])) : k \in 1..Len(timetable)} :
        sl[1] \in visible_days /\ 1 <= sl[2] /\ sl[2] <= 7}

\* the loop over variations: <<unique_candidates, seen_grids>> after it
RECURSIVE DedupLoop(_, _, _)
DedupLoop(unique, seen, vs) ==
    IF vs = <<>> THEN <<unique, seen>>
    ELSE IF Occupied(Head(vs)) \in seen
         THEN DedupLoop(unique, seen, Tail(vs))
         ELSE IF Len(unique) + 1 >= max_candidates
              THEN <<Append(unique, Head(vs)), seen \cup {Occupied(Head(vs))}>>
              ELSE DedupLoop(Append(unique, Head(vs)),
                             seen \cup {Occupied(Head(vs))}, Tail(vs))

-----------------------------------------------------------------------------
(* Swap and addition candidates (lines 237-283 and 630-664) *)

\* variant: the other members are lost
RestOfNone(timetable, c) == {}

\* rest_of_schedule / rest: the members whose number differs from c's
RestOf(timetable, c) == {x \in Range(timetable) : C(x).no # C(c).no}

\* _display_results: the swaps list computed for member c
DisplaySwaps(timetable, c) ==
    {cand \in 1..Len(all_courses) :
        /\ C(cand).no # C(c).no
        /\ C(cand).no \notin Nos(timetable)
        /\ _is_course_valid(C(cand))
        /\ conflicts_with(C(cand), C(c))
        /\ \A r \in RestOf(timetable, c) : ~conflicts_with(C(cand), C(r))}

\* variant: a swap list is computed for the mandatory members as well
SwappableAll(timetable) == Range(timetable)

\* the members a swap list is computed for
Swappable(timetable) == {c \in Range(timetable) : C(c).no \notin mandatory_nos}

_display_results(candidates) ==
    [idx \in 1..Len(candidates) |->
        [c \in Swappable(candidates[idx]) |-> DisplaySwaps(candidates[idx], c)]]

\* _edit_candidate, list: valid_pool
valid_pool(current) ==
    {c \in 1..Len(all_courses) : C(c).no \notin Nos(current) /\ _is_course_valid(C(c))}

ListSwaps(current, curr) ==
    {cand \in valid_pool(current) :
        /\ conflicts_with(C(cand), C(curr))
        /\ \A r \in RestOf(current, curr) : ~conflicts_with(C(cand), C(r))}

ListAddable(current) ==
    {cand \in valid_pool(current) :
        \A c \in Range(current) : ~conflicts_with(C(cand), C(c))}

ListReport(current) ==
    [swaps |-> [curr \in Swappable(current) |-> ListSwaps(current, curr)],
     addable |-> ListAddable(current)]

-----------------------------------------------------------------------------
(* The inputs: catalogs, pattern libraries, settings *)

Mon1 == <<"Mon", 1>>
Tue1 == <<"Tue", 1>>

CatMain ==
    << Course("GEC101", "GEC", 100, 2, {<<"Mon", 1, FALSE>>}),
       Course("GEC201", "GEC", 200, 2, {<<"Mon", 1, TRUE>>}),
       Course("MTH301", "MTH", 300, 3, {<<"Tue", 1, FALSE>>}),
       Course("MTH110", "MTH", 100, 1, {<<"Tue", 1, FALSE>>, <<"Sun", 1, FALSE>>}),
       Course("PHY120", "PHY", 100, 1, {<<"Sun", 1, FALSE>>}) >>

\* A: Mon-1, 2 credits; B: Mon-1, 2 credits; C: Tue-1, 3 credits
CatExample == SubSeq(CatMain, 1, 3)

\* one course, on Mon-1, 2 credits
CatSingle == SubSeq(CatMain, 1, 1)

\* four one-credit courses on four different visible slots
CatWide ==
    << Course("GEC110", "GEC", 100, 1, {<<"Mon", 1, FALSE>>}),
       Course("MTH120", "MTH", 100, 1, {<<"Tue", 1, FALSE>>}),
       Course("PHY130", "PHY", 100, 1, {<<"Wed", 1, FALSE>>}),
       Course("PHY240", "PHY", 200, 1, {<<"Thu", 1, FALSE>>}) >>

Pattern(key, schedule, courses) ==
    [key |-> key, schedule |-> schedule, courses |-> courses]

LibMain ==
    << Pattern("1/M", {Mon1}, <<"GEC101", "GEC201">>),
       Pattern("1/TU", {Tue1}, <<"MTH301">>),
       Pattern("1/TU,1/SU", {Tue1, <<"Sun", 1>>}, <<"MTH110">>),
       Pattern("1/SU", {<<"Sun", 1>>}, <<"PHY120">>),
       \* a stale entry: the course has moved to Mon-1 since the library was built
       Pattern("2/TH", {<<"Thu", 2>>}, <<"GEC101">>) >>

\* ids absent from the catalog, and two patterns on the same slot
LibAlt ==
    << Pattern("3/W", {<<"Wed", 3>>}, <<"XXX999">>),
       Pattern("*1/M", {Mon1}, <<"GEC201">>),
       Pattern("1/M", {Mon1}, <<"XXX999", "GEC101">>),
       Pattern("1/TU", {Tue1}, <<"MTH110", "MTH301">>) >>

LibOne == << Pattern("all", {}, <<"GEC101", "GEC201", "MTH301">>) >>

LibSingle == << Pattern("1/M", {Mon1}, <<"GEC101">>) >>

\* a stale pattern: its only course id is not in the catalog
LibGhost == << Pattern("3/W", {<<"Wed", 3>>}, <<"XXX999">>) >>

LibWide ==
    << Pattern("1/M", {Mon1}, <<"GEC110">>),
       Pattern("1/TU", {Tue1}, <<"MTH120">>),
       Pattern("1/W", {<<"Wed", 1>>}, <<"PHY130">>),
       Pattern("1/TH", {<<"Thu", 1>>}, <<"PHY240">>),
       Pattern("1/W,1/TH", {<<"Wed", 1>>, <<"Thu", 1>>}, <<"PHY130", "PHY240">>) >>

\* course_level_constraints: the band used when a min_level / max_level is missing
DefaultMinLevel == 0
DefaultMaxLevel == 9999

BaseSettings ==
    [mandatory_nos |-> {}, max_credits |-> 5, min_credits |-> 3,
     desired_nos |-> {}, unavailable_slots |-> {}, off_days |-> {},
     excluded_nos |-> {}, temperature |-> 0, max_candidates |-> 3,
     major_codes |-> {}, major_min |-> DefaultMinLevel, major_max |-> DefaultMaxLevel,
     other_min |-> DefaultMinLevel, other_max |-> DefaultMaxLevel,
     priority_subjects |-> {}, level_priorities |-> [sub \in {} |-> 0]]

Scenario(catalog, library, sett, lines) ==
    [catalog |-> catalog, patterns |-> library, settings |-> sett, stdin |-> lines]

Temperatures == {0, 50, 100}

\* constraints on the main catalog
ConstraintScenarios ==
    {Scenario(CatMain, LibMain,
              [BaseSettings EXCEPT !.mandatory_nos = m, !.excluded_nos = x,
                                   !.off_days = o, !.unavailable_slots = u,
                                   !.min_credits = cr[1], !.max_credits = cr[2],
                                   !.temperature = t],
              1) :
        m \in {{}, {"MTH110"}, {"GEC201", "MTH301"}, {"GEC101", "GEC201"},
               {"PHY120", "XXX999"}},
        x \in {{}, {"GEC"}, {"MTH110", "XXX999"}},
        o \in {{}, {"Mon"}, {"Tue"}},
        u \in {{}, {Mon1}, {Tue1, <<"Sun", 1>>}},
        cr \in {<<0, 3>>, <<3, 6>>, <<6, 9>>, <<4, 2>>},
        t \in {0, 100}}

\* ordering: temperature, desired set, priorities, level bands, candidate count
OrderingScenarios ==
    {Scenario(CatMain, lib,
              [BaseSettings EXCEPT !.temperature = t, !.desired_nos = d,
                                   !.priority_subjects = pr[1],
                                   !.level_priorities = pr[2],
                                   !.major_codes = b[1], !.major_max = b[2],
                                   !.other_min = b[3],
                                   !.max_candidates = mc,
                                   !.min_credits = 2],
              1) :
        lib \in {LibMain, LibAlt},
        t \in Temperatures,
        d \in {{}, {"MTH110"}, {"GEC201", "PHY120"}},
        pr \in {<<{}, [sub \in {} |-> 0]>>,
                <<{"MTH"}, [sub \in {"GEC"} |-> 200]>>,
                <<{"PHY"}, [sub \in {"GEC", "MTH"} |-> 100]>>},
        b \in {<<{}, DefaultMaxLevel, DefaultMinLevel>>, <<{"MTH"}, 200, 100>>},
        mc \in {0, 1, 2, 3}}

\* the two worked examples of the specification
ExampleScenarios ==
    {Scenario(CatExample, LibOne, [BaseSettings EXCEPT !.temperature = t], 1) :
        t \in Temperatures}
    \cup
    {Scenario(CatSingle, lib,
              [BaseSettings EXCEPT !.temperature = t, !.min_credits = 2,
                                   !.unavailable_slots = {Mon1}],
              1) :
        lib \in {LibSingle, LibOne, LibGhost}, t \in Temperatures}

\* many candidates: the candidate count limit
WideScenarios ==
    {Scenario(CatWide, LibWide,
              [BaseSettings EXCEPT !.min_credits = 0, !.max_candidates = mc],
              0) :
        mc \in {-1, 0, 1, 5, 10, 11, 12}}

\* edit sessions
EditScenarios ==
    {Scenario(CatMain, LibMain,
              [BaseSettings EXCEPT !.mandatory_nos = m, !.excluded_nos = x,
                                   !.min_credits = 2],
              n) :
        m \in {{}, {"MTH301"}},
        x \in {{}, {"MTH110"}},
        n \in 0..MaxCmds}

\* a desired set next to a mandatory course that is not in it
DesiredScenarios ==
    {Scenario(CatMain, LibMain,
              [BaseSettings EXCEPT !.mandatory_nos = {"MTH301"}, !.desired_nos = d,
                                   !.min_credits = 2, !.max_credits = 6,
                                   !.temperature = t],
              1) :
        d \in {{"GEC201", "PHY120"}, {"GEC101"}}, t \in Temperatures}

\* priority subjects that have a priority level as well
ScoreScenarios ==
    {Scenario(CatMain, LibMain,
              [BaseSettings EXCEPT !.priority_subjects = {"GEC", "MTH"},
                                   !.level_priorities =
                                       [sub \in {"GEC", "MTH"} |-> 100],
                                   !.min_credits = 2, !.temperature = t],
              1) :
        t \in Temperatures}

Scenarios ==
    ConstraintScenarios \cup OrderingScenarios \cup ExampleScenarios
    \cup WideScenarios \cup EditScenarios \cup DesiredScenarios
    \cup ScoreScenarios

-----------------------------------------------------------------------------
(* __init__ (lines 89-130) *)

NoCmd == [cmd |-> "none", no |-> "", result |-> "none"]

Init ==
    \E sc \in Scenarios :
        /\ all_courses = sc.catalog
        /\ patterns = sc.patterns
        /\ settings = sc.settings
        /\ stdin_left = sc.stdin
        /\ mandatory_courses \in _get_courses_by_nos(sc.settings.mandatory_nos)
        /\ pattern_scores = <<>>
        /\ pattern_keys = <<>>
        /\ key_pos = 0
        /\ initial_timetable = <<>>
        /\ final_strict = <<>>
        /\ vars_strict = <<>>
        /\ variations = <<>>
        /\ used_relaxed = FALSE
        /\ unique_candidates = <<>>
        /\ seen_grids = {}
        /\ swap_report = <<>>
        /\ current_courses = <<>>
        /\ selected = 0
        /\ list_report = <<>>
        /\ last_cmd = NoCmd
        /\ saved = <<>>
        /\ outcome = "running"
        /\ pc = "score_patterns"

-----------------------------------------------------------------------------
(* run() (lines 135-186) *)

search_vars == <<pattern_scores, pattern_keys, key_pos, initial_timetable,
                 final_strict, vars_strict, variations, used_relaxed,
                 unique_candidates, seen_grids>>
input_vars == <<all_courses, patterns, settings, mandatory_courses>>
console_vars == <<current_courses, selected, list_report, last_cmd, saved, stdin_left>>

\* _score_patterns: one iteration of its loop over self.patterns
ScorePattern ==
    /\ pc = "score_patterns"
    /\ Len(pattern_scores) < Len(patterns)
    /\ LET pat == patterns[Len(pattern_scores) + 1] IN
       \E draws \in DrawsFor(PatternCourses(pat)) :
           pattern_scores' = Append(pattern_scores, ScoredPattern(pat, draws))
    /\ UNCHANGED <<input_vars, console_vars, pattern_keys, key_pos,
                   initial_timetable, final_strict, vars_strict, variations,
                   used_relaxed, unique_candidates, seen_grids, swap_report,
                   outcome, pc>>

\* lines 138-153: _select_best_patterns and the checks before the scan
SelectPatterns ==
    /\ pc = "score_patterns"
    /\ Len(pattern_scores) = Len(patterns)
    /\ LET keys == _select_best_patterns IN
       IF keys = <<>>
       THEN /\ outcome' = "no_patterns"
            /\ pc' = "done"
            /\ UNCHANGED <<pattern_keys, key_pos>>
       ELSE IF _check_conflict(mandatory_courses)
       THEN /\ outcome' = "mandatory_conflict"
            /\ pc' = "done"
            /\ UNCHANGED <<pattern_keys, key_pos>>
       ELSE /\ pattern_keys' = keys
            /\ key_pos' = 1
            /\ pc' = "fill_strict"
            /\ UNCHANGED outcome
    /\ UNCHANGED <<input_vars, console_vars, pattern_scores, initial_timetable,
                   final_strict, vars_strict, variations, used_relaxed,
                   unique_candidates, seen_grids, swap_report>>

\* line 158: _build_initial_timetable(key), then the strict pass of
\* _fill_remaining_credits (lines 588-591)
FillStrict ==
    /\ pc = "fill_strict"
    /\ LET init == _build_initial_timetable(pattern_keys[key_pos]) IN
       \E draws \in DrawsFor(FillCandidates(init)) :
           LET r == greedy_fill(init, FALSE, draws) IN
           /\ initial_timetable' = init
           /\ final_strict' = r.final
           /\ vars_strict' = r.variations
           /\ variations' = r.variations
           /\ used_relaxed' = FALSE
           /\ pc' = IF r.variations # <<>> THEN "dedup" ELSE "fill_relaxed"
    /\ UNCHANGED <<input_vars, console_vars, pattern_scores, pattern_keys, key_pos,
                   unique_candidates, seen_grids, swap_report, outcome>>

\* variant: the fallback pass starts again from the initial timetable
RelaxedBaseInitial == initial_timetable

\* line 595: the timetable the fallback pass starts from
RelaxedBase == final_strict

\* lines 593-596: the fallback pass
FillRelaxed ==
    /\ pc = "fill_relaxed"
    /\ \E draws \in DrawsFor(FillCandidates(RelaxedBase)) :
           variations' = greedy_fill(RelaxedBase, TRUE, draws).variations
    /\ used_relaxed' = TRUE
    /\ pc' = "dedup"
    /\ UNCHANGED <<input_vars, console_vars, pattern_scores, pattern_keys, key_pos,
                   initial_timetable, final_strict, vars_strict,
                   unique_candidates, seen_grids, swap_report, outcome>>

\* lines 159-179: the loop over the variations of one key, and the breaks
Dedup ==
    /\ pc = "dedup"
    /\ LET after == IF variations = <<>>
                    THEN <<unique_candidates, seen_grids>>
                    ELSE DedupLoop(unique_candidates, seen_grids, variations)
           full == variations # <<>> /\ Len(after[1]) >= max_candidates
       IN  /\ unique_candidates' = after[1]
           /\ seen_grids' = after[2]
           /\ IF full \/ key_pos = Len(pattern_keys)
              THEN pc' = "finish" /\ UNCHANGED key_pos
              ELSE pc' = "fill_strict" /\ key_pos' = key_pos + 1
    /\ UNCHANGED <<input_vars, console_vars, pattern_scores, pattern_keys,
                   initial_timetable, final_strict, vars_strict, variations,
                   used_relaxed, swap_report, outcome>>

\* lines 181-186: no candidate, or _display_results and the interactive mode
Finish ==
    /\ pc = "finish"
    /\ IF unique_candidates = <<>>
       THEN /\ outcome' = "no_candidates"
            /\ pc' = "done"
            /\ UNCHANGED swap_report
       ELSE /\ outcome' = "candidates"
            /\ swap_report' = _display_results(unique_candidates)
            /\ pc' = "menu"
    /\ UNCHANGED <<input_vars, console_vars, search_vars>>

-----------------------------------------------------------------------------
(* _interactive_mode (lines 188-209) *)

Cmd(cmd, no, result) == [cmd |-> cmd, no |-> no, result |-> result]

Quit ==
    /\ pc = "menu"
    /\ stdin_left > 0
    /\ stdin_left' = stdin_left - 1
    /\ pc' = "done"
    /\ UNCHANGED <<input_vars, search_vars, swap_report, current_courses, selected,
                   list_report, last_cmd, saved, outcome>>

\* "select <n>": _edit_candidate copies the candidate (line 213)
Select ==
    /\ pc = "menu"
    /\ stdin_left > 0
    /\ stdin_left' = stdin_left - 1
    /\ \E n \in 0..(Len(unique_candidates) + 1) :
           IF 0 <= n - 1 /\ n - 1 < Len(unique_candidates)
           THEN /\ current_courses' = unique_candidates[n]
                /\ selected' = n
                /\ last_cmd' = Cmd("select", "", "editing")
                /\ pc' = "edit"
           ELSE /\ last_cmd' = Cmd("select", "", "invalid")
                /\ UNCHANGED <<current_courses, selected, pc>>
    /\ UNCHANGED <<input_vars, search_vars, swap_report, list_report, saved, outcome>>

\* input() at the end of the console input raises EOFError
EndOfInput ==
    /\ pc \in {"menu", "edit"}
    /\ stdin_left = 0
    /\ pc' = "done"
    /\ UNCHANGED <<input_vars, search_vars, swap_report, console_vars, outcome>>

-----------------------------------------------------------------------------
(* _edit_candidate (lines 211-322) *)

\* the course numbers typed at the prompt
TypedNos == {C(i).no : i \in 1..Len(all_courses)} \cup {"XXX999"}

ReadEdit ==
    /\ pc = "edit"
    /\ stdin_left > 0
    /\ stdin_left' = stdin_left - 1

EditList ==
    /\ ReadEdit
    /\ list_report' = ListReport(current_courses)
    /\ last_cmd' = Cmd("list", "", "shown")
    /\ UNCHANGED <<input_vars, search_vars, swap_report, current_courses, selected,
                   saved, outcome, pc>>

EditBack ==
    /\ ReadEdit
    /\ pc' = "menu"
    /\ current_courses' = <<>>
    /\ selected' = 0
    /\ last_cmd' = Cmd("back", "", "menu")
    /\ UNCHANGED <<input_vars, search_vars, swap_report, list_report, saved, outcome>>

\* _export_to_ics is given current_courses; then back to the menu
EditSave ==
    /\ ReadEdit
    /\ saved' = current_courses
    /\ pc' = "menu"
    /\ current_courses' = <<>>
    /\ selected' = 0
    /\ last_cmd' = Cmd("save", "", "saved")
    /\ UNCHANGED <<input_vars, search_vars, swap_report, list_report, outcome>>

\* "rm <CourseNo>" (lines 294-301)
RmResult(current, target_no) ==
    SelectSeq(current, LAMBDA c : C(c).no # target_no)

EditRm ==
    /\ ReadEdit
    /\ \E target_no \in TypedNos :
           /\ current_courses' = RmResult(current_courses, target_no)
           /\ last_cmd' = Cmd("rm", target_no,
                              IF Len(RmResult(current_courses, target_no))
                                     < Len(current_courses)
                              THEN "removed" ELSE "not_found")
    /\ UNCHANGED <<input_vars, search_vars, swap_report, selected, list_report,
                   saved, outcome, pc>>

\* variant: the conflict test of add is left out
AddOutcomeNoConflict(current, target_no) ==
    IF target_no \in Nos(current) THEN "already"
    ELSE IF ~InCourseMap(target_no) THEN "unknown"
    ELSE "added"

\* "add <CourseNo>" (lines 303-322): the outcome and the resulting list
AddOutcome(current, target_no) ==
    IF target_no \in Nos(current) THEN "already"
    ELSE IF ~InCourseMap(target_no) THEN "unknown"
    ELSE IF \E c \in Range(current) : conflicts_with(C(c), C(course_map(target_no)))
         THEN "conflict"
         ELSE "added"

AddResult(current, target_no) ==
    IF AddOutcome(current, target_no) = "added"
    THEN Append(current, course_map(target_no))
    ELSE current

\* variant: current_courses is the candidate's own list, append changes both
CandidatesSeenAliased(candidates, n, current) == [candidates EXCEPT ![n] = current]

\* line 213: current_courses = list(timetable) is a copy, so the candidates
\* the menu holds are what they were whatever current_courses.append does
CandidatesSeen(candidates, n, current) == candidates

EditAdd ==
    /\ ReadEdit
    /\ \E target_no \in TypedNos :
           /\ current_courses' = AddResult(current_courses, target_no)
           /\ unique_candidates' =
                  CandidatesSeen(unique_candidates, selected,
                                 AddResult(current_courses, target_no))
           /\ last_cmd' = Cmd("add", target_no, AddOutcome(current_courses, target_no))
    /\ UNCHANGED <<input_vars, pattern_scores, pattern_keys, key_pos,
                   initial_timetable, final_strict, vars_strict, variations,
                   used_relaxed, seen_grids, swap_report, selected, list_report,
                   saved, outcome, pc>>

\* any other line, "del <CourseNo>" included, matches no branch of the loop
EditOther ==
    /\ ReadEdit
    /\ \E target_no \in TypedNos : last_cmd' = Cmd("del", target_no, "ignored")
    /\ UNCHANGED <<input_vars, search_vars, swap_report, current_courses, selected,
                   list_report, saved, outcome, pc>>

-----------------------------------------------------------------------------

Next ==
    \/ ScorePattern
    \/ SelectPatterns
    \/ FillStrict
    \/ FillRelaxed
    \/ Dedup
    \/ Finish
    \/ Quit
    \/ Select
    \/ EndOfInput
    \/ EditList
    \/ EditBack
    \/ EditSave
    \/ EditRm
    \/ EditAdd
    \/ EditOther

Spec == Init /\ [][Next]_vars

-----------------------------------------------------------------------------
(* Properties *)

\* a and b meet in the same (weekday, period), whatever their exception flags
ShareSlot(a, b) ==
    \E s \in a.schedule : \E t \in b.schedule : s[1] = t[1] /\ s[2] = t[2]

PairwiseFree(tt) ==
    \A i, j \in 1..Len(tt) : i # j => ~ShareSlot(C(tt[i]), C(tt[j]))

TotalCredits(tt) == SeqSum([i \in 1..Len(tt) |-> all_courses[tt[i]].credits])

Emitted == Range(unique_candidates)

\* the courses a returned variation holds beyond the initial timetable
AddedByFill(v) == {v[k] : k \in (Len(initial_timetable) + 1)..Len(v)}

\* C1: no two distinct members of an emitted candidate share a (weekday, period)
\* slot, the exception flag being ignored
C1_NoConflict == \A tt \in Emitted : PairwiseFree(tt)

\* a candidate of two or more courses is emitted while a valid course outside it
\* meets a member in the same slot under the other exception flag
C1_Witness ==
    /\ outcome = "candidates"
    /\ \E tt \in Emitted :
           /\ Len(tt) >= 2
           /\ \E x \in 1..Len(all_courses) : \E m \in Range(tt) :
                  /\ x \notin Range(tt)
                  /\ _is_course_valid(C(x))
                  /\ \E s \in C(x).schedule : \E t \in C(m).schedule :
                         s[1] = t[1] /\ s[2] = t[2] /\ s[3] # t[3]

\* C2: every variation _fill_remaining_credits returns, and every emitted
\* candidate, has total credits T with minCredits <= T <= maxCredits
C2_CreditBound ==
    \A tt \in Range(variations) \cup Emitted :
        /\ settings.min_credits <= TotalCredits(tt)
        /\ TotalCredits(tt) <= settings.max_credits

\* the relaxed pass has returned a variation for a later key, after candidates
\* of earlier keys were kept
C2_Witness ==
    /\ pc = "dedup"
    /\ used_relaxed
    /\ variations # <<>>
    /\ unique_candidates # <<>>

\* C3: when the mandatory set is conflict-free and within maxCredits, every
\* emitted candidate contains every configured mandatory course id
C3_MandatoryInclusion ==
    (PairwiseFree(mandatory_courses)
        /\ TotalCredits(mandatory_courses) <= settings.max_credits)
    => \A tt \in Emitted : settings.mandatory_nos \subseteq Nos(tt)

\* C4 (as stated): no emitted candidate contains a course for which isValid is false
IsValid(course) ==
    /\ course.no \notin {e \in settings.excluded_nos : e \notin AlphaUpper}
    /\ course.subject \notin {e \in settings.excluded_nos : e \in AlphaUpper}
    /\ IF course.subject \in settings.major_codes
       THEN settings.major_min <= course.level /\ course.level <= settings.major_max
       ELSE settings.other_min <= course.level /\ course.level <= settings.other_max

C4_AllValid == \A tt \in Emitted : \A m \in Range(tt) : IsValid(C(m))

\* C4 (amended): every member of an emitted candidate whose id is not a mandatory
\* id is valid
C4_NonMandatoryValid ==
    \A tt \in Emitted : \A m \in Range(tt) :
        C(m).no \notin settings.mandatory_nos => IsValid(C(m))

\* a candidate with a non-mandatory member is emitted while the catalog holds an
\* invalid course that is free of conflicts with it and fits the credit budget
C4_Witness ==
    /\ outcome = "candidates"
    /\ \E tt \in Emitted :
           /\ \E m \in Range(tt) : C(m).no \notin settings.mandatory_nos
           /\ \E x \in 1..Len(all_courses) :
                  /\ ~IsValid(C(x))
                  /\ C(x).no \notin settings.mandatory_nos
                  /\ \A m \in Range(tt) : ~ShareSlot(C(x), C(m))
                  /\ TotalCredits(tt) + C(x).credits <= settings.max_credits

OnOffDay(course) == \E t \in course.schedule : t[1] \in settings.off_days

InUnavailable(course) ==
    \E t \in course.schedule : <<t[1], t[2]>> \in settings.unavailable_slots

\* C6: when the strict pass returns a variation, _fill_remaining_credits returns
\* exactly the strict variations, and no course the fill added to any of them
\* occupies an unavailable slot
C6_StrictOnly ==
    (pc = "dedup" /\ vars_strict # <<>>)
    => /\ variations = vars_strict
       /\ ~used_relaxed
       /\ \A v \in Range(variations) : \A m \in AddedByFill(v) : ~InUnavailable(C(m))

\* the strict pass returned a variation with an added course while a valid course
\* in an unavailable slot was free of conflicts with it and within budget
C6_Witness ==
    /\ pc = "dedup"
    /\ vars_strict # <<>>
    /\ \E v \in Range(variations) :
           /\ AddedByFill(v) # {}
           /\ \E x \in 1..Len(all_courses) :
                  /\ InUnavailable(C(x))
                  /\ ~OnOffDay(C(x))
                  /\ IsValid(C(x))
                  /\ \A m \in Range(v) : ~ShareSlot(C(x), C(m))
                  /\ TotalCredits(v) + C(x).credits <= settings.max_credits

\* C7: every variation the relaxed pass returns contains every course the strict
\* pass had accepted, and every course of the initial timetable
C7_RelaxedFromStrict ==
    (pc = "dedup" /\ used_relaxed)
    => \A v \in Range(variations) :
           /\ Range(final_strict) \subseteq Range(v)
           /\ Range(initial_timetable) \subseteq Range(v)

\* the relaxed pass returned a variation after a strict pass that had accepted
\* a course of its own
C7_Witness ==
    /\ pc = "dedup"
    /\ used_relaxed
    /\ variations # <<>>
    /\ Len(final_strict) > Len(initial_timetable)

\* the visual signature: the (weekday, period) pairs occupied by members,
\* restricted to Monday-Saturday and periods 1-7
Signature(tt) ==
    {<<t[1], t[2]>> : t \in
        {t \in UNION {C(m).schedule : m \in Range(tt)} :
            t[1] \in {"Mon", "Tue", "Wed", "Thu", "Fri", "Sat"} /\ t[2] \in 1..7}}

C8_Distinct ==
    \A i, j \in 1..Len(unique_candidates) :
        i # j => Signature(unique_candidates[i]) # Signature(unique_candidates[j])

\* a step keeps the candidates emitted so far in place, and emits no variation
\* whose signature an earlier candidate has
C8_FirstKept ==
    /\ Len(unique_candidates) <= Len(unique_candidates')
    /\ SubSeq(unique_candidates', 1, Len(unique_candidates)) = unique_candidates
    /\ \A k \in (Len(unique_candidates) + 1)..Len(unique_candidates') :
           \A tt \in Emitted : Signature(tt) # Signature(unique_candidates'[k])

\* C8: no two emitted candidates have the same visual signature, and of two
\* candidates with equal signatures only the earlier one is emitted
C8_UniqueSignatures == []C8_Distinct /\ [][C8_FirstKept]_vars

\* a later pattern has produced a variation with the signature of an emitted
\* candidate and with other members; it has been discarded
C8_Witness ==
    /\ pc \in {"fill_strict", "finish"}
    /\ key_pos > 1
    /\ \E v \in Range(variations) : \E tt \in Emitted :
           /\ Signature(v) = Signature(tt)
           /\ Range(v) # Range(tt)
           /\ v \notin Emitted

\* maxCandidates clamped to 1..10
Clamped(n) == IF n < 1 THEN 1 ELSE IF n > 10 THEN 10 ELSE n

\* C9: the number of emitted candidates never exceeds maxCandidates clamped to
\* 1..10, for every configured value
C9_CandidateLimit == Len(unique_candidates) <= Clamped(settings.max_candidates)

\* the timetable with member c removed, by course number as "rm" does, and x
\* inserted
Swapped(tt, c, x) == Append(SelectSeq(tt, LAMBDA m : C(m).no # C(c).no), x)

\* C10: for every swap candidate X reported for a member C of a conflict-free
\* timetable, by the result display and by the list command, the timetable with
\* C removed and X inserted is pairwise conflict-free
C10_SwapCorrect ==
    /\ \A idx \in DOMAIN swap_report :
           PairwiseFree(unique_candidates[idx])
           => \A c \in DOMAIN swap_report[idx] : \A x \in swap_report[idx][c] :
                  PairwiseFree(Swapped(unique_candidates[idx], c, x))
    /\ (pc = "edit" /\ last_cmd.cmd = "list" /\ PairwiseFree(current_courses))
       => \A c \in DOMAIN list_report.swaps : \A x \in list_report.swaps[c] :
              PairwiseFree(Swapped(current_courses, c, x))

\* the list command has reported a swap for a member of a timetable of two or more
\* courses, and the result display had reported one too
C10_Witness ==
    /\ pc = "edit"
    /\ last_cmd.cmd = "list"
    /\ Len(current_courses) >= 2
    /\ \E c \in DOMAIN list_report.swaps : list_report.swaps[c] # {}
    /\ \E idx \in DOMAIN swap_report : \E c \in DOMAIN swap_report[idx] :
           swap_report[idx][c] # {} /\ Len(unique_candidates[idx]) >= 2

-----------------------------------------------------------------------------
(* Edit-mode additions *)

\* the course fits what is left of the credit budget of the timetable
FitsBudget(current, x) == TotalCredits(current) + C(x).credits <= max_credits

ConflictFree(current, x) == \A c \in Range(current) : ~ShareSlot(C(c), C(x))

\* C11: a course outside the current timetable is offered by the edit-mode list,
\* and accepted by the edit-mode add, iff it conflicts with no member and the
\* current total plus its credits is at most maxCredits; an accepted add leaves
\* the total within maxCredits, a refused one names a conflict or a budget overrun
C11_AdditionFits ==
    /\ (pc = "edit" /\ last_cmd.cmd = "list") =>
           \A x \in 1..Len(all_courses) :
               (C(x).no \notin Nos(current_courses) /\ _is_course_valid(C(x))) =>
                   (x \in list_report.addable
                        <=> (ConflictFree(current_courses, x)
                               /\ FitsBudget(current_courses, x)))
    /\ (pc = "edit" /\ last_cmd.cmd = "add" /\ last_cmd.result = "added") =>
           TotalCredits(current_courses) <= max_credits
    /\ (pc = "edit" /\ last_cmd.cmd = "add" /\ last_cmd.result = "conflict") =>
           ~(ConflictFree(current_courses, course_map(last_cmd.no))
               /\ FitsBudget(current_courses, course_map(last_cmd.no)))

-----------------------------------------------------------------------------
(* Determinism at temperature 0 *)

\* the random source returning 0.0 at every call
ZeroDraws(courses) == [k \in 1..Len(DesiredFilter(courses)) |-> 0]

\* what the strict pass returns for the current key when every draw is 0.0
StrictAtZero ==
    greedy_fill(initial_timetable, FALSE, ZeroDraws(FillCandidates(initial_timetable)))

\* C12: at temperature 0 with an empty desired set the random draws change
\* nothing: every _prepare_candidates call returns the order it returns when all
\* draws are 0.0, so the pattern scores and ranking, the variations of each key
\* and the emitted candidates are a function of catalog, constraints and patterns
C12_DrawFree ==
    (temperature = 0 /\ desired_nos = {}) =>
        /\ \A k \in 1..Len(pattern_scores) :
               pattern_scores[k]
                   = ScoredPattern(patterns[k], ZeroDraws(PatternCourses(patterns[k])))
        /\ (pc = "score_patterns" /\ Len(pattern_scores) < Len(patterns)) =>
               LET courses == PatternCourses(patterns[Len(pattern_scores) + 1]) IN
               \A draws \in DrawsFor(courses) :
                   _prepare_candidates(courses, draws)
                       = _prepare_candidates(courses, ZeroDraws(courses))
        /\ (pc = "fill_strict") =>
               LET courses == FillCandidates(
                                  _build_initial_timetable(pattern_keys[key_pos])) IN
               \A draws \in DrawsFor(courses) :
                   _prepare_candidates(courses, draws)
                       = _prepare_candidates(courses, ZeroDraws(courses))
        /\ (pc \in {"fill_relaxed", "dedup"}) =>
               /\ initial_timetable = _build_initial_timetable(pattern_keys[key_pos])
               /\ vars_strict = StrictAtZero.variations
               /\ final_strict = StrictAtZero.final
        /\ (pc = "fill_relaxed") =>
               LET courses == FillCandidates(RelaxedBase) IN
               \A draws \in DrawsFor(courses) :
                   _prepare_candidates(courses, draws)
                       = _prepare_candidates(courses, ZeroDraws(courses))
        /\ (pc = "dedup") =>
               variations
                   = IF used_relaxed
                     THEN greedy_fill(RelaxedBase, TRUE,
                                      ZeroDraws(FillCandidates(RelaxedBase))).variations
                     ELSE vars_strict

\* a run at temperature 0 with an empty desired set has emitted a first candidate
\* of two or more courses, after a fill whose candidates held two courses of
\* equal score, which only the draws could tell apart
C12_Witness ==
    /\ temperature = 0 /\ desired_nos = {}
    /\ pc = "menu"
    /\ Len(unique_candidates[1]) >= 2
    /\ \E i, j \in Range(FillCandidates(initial_timetable)) :
           i # j /\ course_scores(C(i).no) = course_scores(C(j).no)

-----------------------------------------------------------------------------
(* Infeasible configurations *)

MandatoryConflict == ~PairwiseFree(mandatory_courses)

MandatoryOverBudget == TotalCredits(mandatory_courses) > max_credits

Infeasible == min_credits > max_credits \/ MandatoryConflict \/ MandatoryOverBudget

\* C13: when minCredits > maxCredits, or two mandatory courses conflict, or the
\* mandatory courses' credits exceed maxCredits, run() returns no variation,
\* emits no candidate and never enters the interactive mode
C13_InfeasibleAborts ==
    Infeasible =>
        /\ unique_candidates = <<>>
        /\ variations = <<>>
        /\ outcome # "candidates"
        /\ pc \notin {"menu", "edit"}

\* the run has ended without a candidate after scanning the patterns, the
\* mandatory courses being conflict-free but over the credit budget
C13_Witness ==
    /\ pc = "done"
    /\ outcome = "no_candidates"
    /\ MandatoryOverBudget
    /\ ~MandatoryConflict
    /\ min_credits <= max_credits
    /\ key_pos >= 1

-----------------------------------------------------------------------------
(* The relaxed-pass example *)

\* unavailableSlots = [(Mon,1)], minCredits = 2, no mandatory course, and a
\* catalog whose only course meets on Mon-1 with 2 credits
RelaxExample ==
    /\ all_courses = CatSingle
    /\ unavailable_slots = {Mon1}
    /\ min_credits = 2
    /\ mandatory_nos = {}

\* C14: in the relaxed-pass example the run ends with exactly one candidate, the
\* single course, which the fallback pass accepted after the strict pass had
\* returned no variation
C14_RelaxedExample ==
    (RelaxExample /\ pc \in {"done", "menu"}) =>
        /\ unique_candidates = << <<1>> >>
        /\ vars_strict = <<>>
        /\ used_relaxed

\* the example has run as the claim tells it: this happens with a pattern that
\* is eligible and resolves no course
C14_AsTold ==
    /\ RelaxExample
    /\ pc = "menu"
    /\ unique_candidates = << <<1>> >>
    /\ vars_strict = <<>>
    /\ used_relaxed

-----------------------------------------------------------------------------
(* The three-course example *)

\* catalog {A: Mon-1, 2 credits; B: Mon-1, 2 credits; C: Tue-1, 3 credits} at
\* catalog positions 1, 2, 3; one pattern listing the three; no mandatory
\* course; minCredits 3, maxCredits 5
ConflictExample ==
    /\ all_courses = CatExample
    /\ patterns = LibOne
    /\ mandatory_nos = {}
    /\ min_credits = 3
    /\ max_credits = 5

HoldsCAndOneOfAB(tt) ==
    /\ 3 \in Range(tt)
    /\ (1 \in Range(tt)) # (2 \in Range(tt))
    /\ TotalCredits(tt) = 5

\* C15: in the three-course example, at every temperature and for every random
\* draw, the run ends with a candidate, every emitted candidate holds C and
\* exactly one of A and B with total credits 5, and no variation or candidate
\* holds both A and B
C15_ConflictExample ==
    ConflictExample =>
        /\ \A tt \in Emitted \cup Range(variations) : ~({1, 2} \subseteq Range(tt))
        /\ \A tt \in Emitted : HoldsCAndOneOfAB(tt)
        /\ (pc \in {"menu", "edit", "done"}) =>
               /\ outcome = "candidates"
               /\ \E tt \in Emitted : HoldsCAndOneOfAB(tt)

\* the example has produced its candidate with B, which only a random draw at a
\* temperature above 0 puts ahead of A
C15_Witness ==
    /\ ConflictExample
    /\ temperature > 0
    /\ pc = "menu"
    /\ \E tt \in Emitted : 2 \in Range(tt) /\ HoldsCAndOneOfAB(tt)

-----------------------------------------------------------------------------
(* The edit session works on a copy *)

ConsoleStep == pc \in {"menu", "edit"}

\* C16: a step of the interactive mode (select, list, add, rm, back, save, any
\* other line, end of input) leaves the list of candidates and each candidate's
\* members as the search produced them, and a select that opens an edit session
\* starts it from the members of the selected candidate
C16_EditsOnCopy ==
    [][ConsoleStep =>
           /\ unique_candidates' = unique_candidates
           /\ (pc = "menu" /\ pc' = "edit") =>
                  current_courses' = unique_candidates[selected']]_vars

\* a candidate is selected again after an edit session that added a course to
\* it and saved the result: the new session starts from the candidate's members
C16_Witness ==
    /\ pc = "edit"
    /\ last_cmd.cmd = "select"
    /\ saved \notin Range(unique_candidates)
    /\ Range(unique_candidates[selected]) \subseteq Range(saved)
    /\ Range(unique_candidates[selected]) # Range(saved)
    /\ current_courses = unique_candidates[selected]

-----------------------------------------------------------------------------
(* Pattern eligibility *)

\* (a), (b), (c) for the pattern at position k of the library
NoSlotOnOffDay(k) == \A sl \in patterns[k].schedule : sl[1] \notin settings.off_days

NoSlotUnavailable(k) == \A sl \in patterns[k].schedule : sl \notin unavailable_slots

ClearOfMandatory(k) ==
    \A sl \in patterns[k].schedule : \A i \in 1..Len(mandatory_courses) :
        sl \notin SlotsOf(C(mandatory_courses[i]))

MeetsABC(k) == NoSlotOnOffDay(k) /\ NoSlotUnavailable(k) /\ ClearOfMandatory(k)

\* _select_best_patterns has been called
Selected == pc # "score_patterns"

\* C17 (as stated): _select_best_patterns returns the key of a pattern iff the
\* pattern has no slot on an off day, no slot in the unavailable set, and no slot
\* of a mandatory course
C17_EligibleIff ==
    Selected =>
        \A k \in 1..Len(patterns) : (k \in Range(pattern_keys)) <=> MeetsABC(k)

\* C17 (amended): when the mandatory courses are pairwise conflict-free,
\* _select_best_patterns returns the key of a pattern iff the pattern has no slot
\* on an off day, no slot in the unavailable set (the strict test, also when the
\* run ends without a candidate) and no slot of a mandatory course; when two
\* mandatory courses conflict it returns no key at all
C17_EligibleUnlessConflict ==
    Selected =>
        IF MandatoryConflict
        THEN pattern_keys = <<>>
        ELSE /\ \A k \in 1..Len(patterns) :
                    (k \in Range(pattern_keys)) <=> MeetsABC(k)
             /\ (outcome = "no_candidates") =>
                    \A k \in Range(pattern_keys) : NoSlotUnavailable(k)

\* a selection has returned a key and has dropped one pattern for an unavailable
\* slot only and another for a mandatory course's slot only, and the run has
\* ended without a candidate
C17_Witness ==
    /\ pc = "done"
    /\ outcome = "no_candidates"
    /\ pattern_keys # <<>>
    /\ \E k \in 1..Len(patterns) :
           NoSlotOnOffDay(k) /\ ~NoSlotUnavailable(k) /\ ClearOfMandatory(k)
    /\ \E k \in 1..Len(patterns) :
           NoSlotOnOffDay(k) /\ NoSlotUnavailable(k) /\ ~ClearOfMandatory(k)

-----------------------------------------------------------------------------
(* Pattern ranking *)

ScoreOfKey(k) == pattern_scores[k].score

\* C18: the returned pattern keys are in order of non-increasing pattern score,
\* two keys of equal score are in library order, and run() builds the initial
\* timetable of the key at the scan position, which moves forward by one
C18_RankedStable ==
    Selected =>
        /\ \A i, j \in 1..Len(pattern_keys) :
               i < j =>
                   /\ ScoreOfKey(pattern_keys[i]) >= ScoreOfKey(pattern_keys[j])
                   /\ (ScoreOfKey(pattern_keys[i]) = ScoreOfKey(pattern_keys[j])) =>
                          pattern_keys[i] < pattern_keys[j]
        /\ (pc \in {"fill_relaxed", "dedup"}) =>
               initial_timetable = _build_initial_timetable(pattern_keys[key_pos])
        /\ (pattern_keys # <<>>) => key_pos \in 1..Len(pattern_keys)

\* the scan has reached the third key of a ranking that holds two keys of equal
\* score and puts a pattern ahead of one that comes earlier in the library
C18_Witness ==
    /\ Selected
    /\ key_pos >= 3
    /\ \E i, j \in 1..Len(pattern_keys) :
           i < j /\ ScoreOfKey(pattern_keys[i]) = ScoreOfKey(pattern_keys[j])
    /\ \E i, j \in 1..Len(pattern_keys) :
           i < j /\ pattern_keys[i] > pattern_keys[j]

-----------------------------------------------------------------------------
(* Temperature 100 *)

\* the position of course x in the list out
PosIn(out, x) == CHOOSE k \in 1..Len(out) : out[k] = x

\* the returned order follows the draws alone: of two courses, the one with
\* the greater draw comes first
ByDrawsAlone(courses, draws) ==
    LET out == _prepare_candidates(courses, draws) IN
    \A a, b \in 1..Len(courses) :
        draws[a] > draws[b] => PosIn(out, courses[a]) < PosIn(out, courses[b])

\* the list the next _prepare_candidates call is given, <<>> when none is due
NextPrepared ==
    IF pc = "score_patterns" /\ Len(pattern_scores) < Len(patterns)
    THEN PatternCourses(patterns[Len(pattern_scores) + 1])
    ELSE IF pc = "fill_strict"
    THEN FillCandidates(_build_initial_timetable(pattern_keys[key_pos]))
    ELSE IF pc = "fill_relaxed"
    THEN FillCandidates(RelaxedBase)
    ELSE <<>>

\* C19: at temperature 100 the order _prepare_candidates returns follows the
\* random draws alone, whatever the course scores and the desired set: a course
\* with a greater draw comes before a course with a smaller one
C19_PureShuffle ==
    (temperature = 100) =>
        \A draws \in DrawsFor(NextPrepared) : ByDrawsAlone(NextPrepared, draws)

\* at temperature 100 membership in the desired set does not change the order:
\* courses of equal score are ordered by their draws alone
C19_DesiredIgnored ==
    (temperature = 100
        /\ \A i, j \in Range(NextPrepared) :
               course_scores(C(i).no) = course_scores(C(j).no)) =>
        \A draws \in DrawsFor(NextPrepared) : ByDrawsAlone(NextPrepared, draws)

-----------------------------------------------------------------------------
(* The desired set at temperature 0 *)

DesiredOnly == desired_nos # {} /\ temperature = 0

\* the courses of an emitted candidate that are not mandatory
NonMandatory(tt) == {m \in Range(tt) : C(m).no \notin mandatory_nos}

IsPermutation(out, courses) ==
    /\ Len(out) = Len(courses)
    /\ \A x \in Range(courses) \cup Range(out) :
           Cardinality({k \in 1..Len(out) : out[k] = x})
               = Cardinality({k \in 1..Len(courses) : courses[k] = x})

\* C20: with a non-empty desired set D at temperature 0 _prepare_candidates
\* returns only courses whose id is in D, the courses of its input in D all
\* kept, and every non-mandatory course of every emitted candidate is in D; for
\* any other (D, temperature) the list returned is a permutation of its input
C20_DesiredFilter ==
    /\ \A draws \in DrawsFor(NextPrepared) :
           LET out == _prepare_candidates(NextPrepared, draws) IN
           IF DesiredOnly
           THEN /\ \A x \in Range(out) : C(x).no \in desired_nos
                /\ Range(out) = {x \in Range(NextPrepared) : C(x).no \in desired_nos}
           ELSE IsPermutation(out, NextPrepared)
    /\ DesiredOnly =>
           \A tt \in Emitted \cup Range(variations) :
               \A m \in NonMandatory(tt) : C(m).no \in desired_nos

\* with a desired set at temperature 0 a candidate has been emitted that holds a
\* mandatory course outside the desired set and a desired course, while a valid
\* course outside the desired set would have fitted it
C20_Witness ==
    /\ DesiredOnly
    /\ outcome = "candidates"
    /\ \E tt \in Emitted :
           /\ NonMandatory(tt) # {}
           /\ \E m \in Range(tt) : C(m).no \notin desired_nos
           /\ \E x \in 1..Len(all_courses) :
                  /\ C(x).no \notin desired_nos
                  /\ C(x).no \notin Nos(tt)
                  /\ _is_course_valid(C(x))
                  /\ ConflictFree(tt, x)
                  /\ FitsBudget(tt, x)
                  /\ ~OnOffDay(C(x)) /\ ~InUnavailable(C(x))

-----------------------------------------------------------------------------
(* Course scores *)

ScoreValues == {1, 3, 6, 11, 13, 16}

HasLevelPriority(course) == course.subject \in DOMAIN settings.level_priorities

PriorityBonus(course) ==
    IF course.subject \in settings.priority_subjects THEN 10 ELSE 0

\* 5 at the configured level, 2 at most 100 away from it, never both
LevelBonus(course) ==
    IF ~HasLevelPriority(course) THEN 0
    ELSE LET d == course.level - settings.level_priorities[course.subject] IN
         IF d = 0 THEN 5
         ELSE IF -100 <= d /\ d <= 100 THEN 2 ELSE 0

\* C21: the score of every catalog course is 1, plus 10 for a priority subject,
\* plus 5 at the configured priority level of its subject or else 2 within 100
\* of it, so it is one of 1, 3, 6, 11, 13, 16; the score of a scored pattern is
\* the sum of such scores over its courses
C21_ScoreValues ==
    /\ \A i \in 1..Len(all_courses) :
           /\ course_scores(C(i).no) = 1 + PriorityBonus(C(i)) + LevelBonus(C(i))
           /\ course_scores(C(i).no) \in ScoreValues
    /\ \A k \in 1..Len(pattern_scores) :
           pattern_scores[k].score
               = SeqSum([n \in 1..Len(pattern_scores[k].courses) |->
                            1 + PriorityBonus(C(pattern_scores[k].courses[n]))
                              + LevelBonus(C(pattern_scores[k].courses[n]))])

\* the patterns are scored in a catalog with a course of score 16 (priority
\* subject at its priority level) and one of score 13 (priority subject 100
\* away from its priority level), and a pattern's score counts the 16
C21_Witness ==
    /\ Selected
    /\ \E i \in 1..Len(all_courses) : course_scores(C(i).no) = 16
    /\ \E i \in 1..Len(all_courses) : course_scores(C(i).no) = 13
    /\ \E k \in 1..Len(pattern_scores) : pattern_scores[k].score = 16

-----------------------------------------------------------------------------
(* Resolved patterns *)

\* the ids the pattern lists that are in the catalog and valid
Resolvable(pat) ==
    {no \in Range(pat.courses) : InCourseMap(no) /\ IsValid(C(course_map(no)))}

\* C22: every pattern of the library gets scored; the course list stored for a
\* pattern is pairwise conflict-free and holds only valid catalog courses whose
\* ids the pattern lists, its score is the sum of their course scores, and a
\* pattern none of whose ids is in the catalog gets score 0 and an empty list
C22_ResolvedPatterns ==
    /\ Selected => Len(pattern_scores) = Len(patterns)
    /\ \A k \in 1..Len(pattern_scores) :
           LET best == pattern_scores[k].courses IN
           /\ PairwiseFree(best)
           /\ \A c \in Range(best) : C(c).no \in Resolvable(patterns[k])
           /\ pattern_scores[k].score
                  = SeqSum([n \in 1..Len(best) |-> course_scores(C(best[n]).no)])
           /\ (\A no \in Range(patterns[k].courses) : ~InCourseMap(no)) =>
                  (pattern_scores[k].score = 0 /\ best = <<>>)

\* the library has been scored with a pattern of unknown ids only, a pattern
\* that lists an unknown id next to a course it keeps, and a pattern that lists
\* an invalid catalog course, which it drops
C22_Witness ==
    /\ Selected
    /\ \E k \in 1..Len(pattern_scores) :
           /\ patterns[k].courses # <<>>
           /\ \A no \in Range(patterns[k].courses) : ~InCourseMap(no)
    /\ \E k \in 1..Len(pattern_scores) :
           /\ \E no \in Range(patterns[k].courses) : ~InCourseMap(no)
           /\ pattern_scores[k].courses # <<>>
    /\ \E k \in 1..Len(pattern_scores) :
           /\ \E no \in Range(patterns[k].courses) :
                  InCourseMap(no) /\ ~IsValid(C(course_map(no)))
           /\ pattern_scores[k].courses # <<>>

-----------------------------------------------------------------------------
(* Swap candidates *)

\* the catalog courses that are a valid swap for member c of timetable tt
ValidSwaps(tt, c) ==
    {x \in 1..Len(all_courses) :
        /\ C(x).no \notin Nos(tt)
        /\ IsValid(C(x))
        /\ C(x).no # C(c).no
        /\ ShareSlot(C(x), C(c))
        /\ \A r \in Range(tt) \ {c} : ~ShareSlot(C(x), C(r))}

NonMandatoryMembers(tt) == {c \in Range(tt) : C(c).no \notin settings.mandatory_nos}

\* C23: the result display, for every emitted candidate, and the list command,
\* for the working timetable, compute a swap list for exactly the non-mandatory
\* members, and the list of member C holds exactly the catalog courses that are
\* not in the timetable, valid, of another id than C, share a slot with C and
\* share no slot with any other member
C23_SwapsExact ==
    /\ \A idx \in DOMAIN swap_report :
           /\ DOMAIN swap_report[idx] = NonMandatoryMembers(unique_candidates[idx])
           /\ \A c \in DOMAIN swap_report[idx] :
                  swap_report[idx][c] = ValidSwaps(unique_candidates[idx], c)
    /\ (pc = "edit" /\ last_cmd.cmd = "list") =>
           /\ DOMAIN list_report.swaps = NonMandatoryMembers(current_courses)
           /\ \A c \in DOMAIN list_report.swaps :
                  list_report.swaps[c] = ValidSwaps(current_courses, c)

\* the list command has run on a timetable with a mandatory member, a member
\* with a swap candidate, and a member for which a valid course on one of its
\* slots is no swap candidate because it meets another member
C23_Witness ==
    /\ pc = "edit"
    /\ last_cmd.cmd = "list"
    /\ \E c \in Range(current_courses) : C(c).no \in settings.mandatory_nos
    /\ \E c \in DOMAIN list_report.swaps : list_report.swaps[c] # {}
    /\ \E c \in DOMAIN list_report.swaps : \E x \in 1..Len(all_courses) :
           /\ C(x).no \notin Nos(current_courses)
           /\ IsValid(C(x))
           /\ ShareSlot(C(x), C(c))
           /\ x \notin list_report.swaps[c]

-----------------------------------------------------------------------------
(* The advertised remove command *)

\* C24: after "del <CourseNo>", the command the edit menu advertises, the
\* working timetable holds no member with that id
C24_DelRemoves ==
    (pc = "edit" /\ last_cmd.cmd = "del") => last_cmd.no \notin Nos(current_courses)

\* what the code does instead: "rm <CourseNo>" removes the member
C24_RmRemoves ==
    (pc = "edit" /\ last_cmd.cmd = "rm") => last_cmd.no \notin Nos(current_courses)

-----------------------------------------------------------------------------
(* The variations of one greedy fill pass *)

IsPrefix(s, t) == Len(s) <= Len(t) /\ SubSeq(t, 1, Len(s)) = s

\* each variation after the first is the previous one with one course appended,
\* every variation is a prefix of the final timetable, the last one equals it
GrowingPrefixes(final, vs) ==
    /\ \A n \in 2..Len(vs) : Len(vs[n]) = Len(vs[n - 1]) + 1 /\ IsPrefix(vs[n - 1], vs[n])
    /\ \A n \in 1..Len(vs) : IsPrefix(vs[n], final)
    /\ (vs # <<>>) => vs[Len(vs)] = final

\* the pass's schedule test: off days always, unavailable slots in the strict pass
PassAllows(x, ignore_unavailable) ==
    ~OnOffDay(C(x)) /\ (ignore_unavailable \/ ~InUnavailable(C(x)))

\* the valid, schedule-allowed courses outside tt that fit it: no slot conflict
\* and within maxCredits
StillFits(tt, ignore_unavailable) ==
    {x \in 1..Len(all_courses) :
        /\ C(x).no \notin Nos(tt)
        /\ IsValid(C(x))
        /\ PassAllows(x, ignore_unavailable)
        /\ ConflictFree(tt, x)
        /\ FitsBudget(tt, x)}

PassAsStated(final, vs, ignore_unavailable) ==
    /\ GrowingPrefixes(final, vs)
    /\ (vs # <<>>) => StillFits(final, ignore_unavailable) = {}

\* the courses the pass looks at: the desired ones only when the desired set is
\* non-empty at temperature 0
PassAmended(final, vs, ignore_unavailable) ==
    /\ GrowingPrefixes(final, vs)
    /\ (vs # <<>>) =>
           \A x \in StillFits(final, ignore_unavailable) :
               DesiredOnly /\ C(x).no \notin desired_nos

\* C25 (as stated): the variations of the strict pass, and of the fallback pass
\* for every draw, are growing prefixes of the pass's final timetable, one
\* course apart, the last one equal to it, and then no valid, schedule-allowed
\* course outside the final timetable fits it
C25_GrowingMaximal ==
    /\ (pc \in {"fill_relaxed", "dedup"}) =>
           PassAsStated(final_strict, vars_strict, FALSE)
    /\ (pc = "fill_relaxed") =>
           \A draws \in DrawsFor(FillCandidates(RelaxedBase)) :
               LET r == greedy_fill(RelaxedBase, TRUE, draws) IN
               PassAsStated(r.final, r.variations, TRUE)

\* C25 (amended): the variations of a pass are growing prefixes of the pass's
\* final timetable, one course apart, the last one equal to it, and then no
\* valid, schedule-allowed course outside the final timetable fits it, except,
\* with a non-empty desired set at temperature 0, courses outside the desired set
C25_GrowingMaximalDesired ==
    /\ (pc \in {"fill_relaxed", "dedup"}) =>
           PassAmended(final_strict, vars_strict, FALSE)
    /\ (pc = "fill_relaxed") =>
           \A draws \in DrawsFor(FillCandidates(RelaxedBase)) :
               LET r == greedy_fill(RelaxedBase, TRUE, draws) IN
               PassAmended(r.final, r.variations, TRUE)

\* the strict pass has returned two or more variations, the first one holding
\* a course the fill added, while a valid, schedule-allowed catalog course is
\* left outside the final timetable
C25_Witness ==
    /\ pc = "dedup"
    /\ ~used_relaxed
    /\ Len(vars_strict) >= 2
    /\ Len(vars_strict[1]) > Len(initial_timetable)
    /\ \E x \in 1..Len(all_courses) :
           /\ C(x).no \notin Nos(final_strict)
           /\ IsValid(C(x))
           /\ PassAllows(x, FALSE)

-----------------------------------------------------------------------------
(* The working timetable of an edit session *)

NoIdTwice(tt) == \A i, j \in 1..Len(tt) : i # j => C(tt[i]).no # C(tt[j]).no

WorkingTimetableSound ==
    (pc = "edit") => (PairwiseFree(current_courses) /\ NoIdTwice(current_courses))

\* an add command has just been read
AddRead == pc = "edit" /\ pc' = "edit" /\ last_cmd'.cmd = "add" /\ stdin_left' < stdin_left

\* the typed id is already a member, is not in the catalog, or names a course
\* that shares a slot with a member
MustReject(tt, no) ==
    \/ no \in Nos(tt)
    \/ ~InCourseMap(no)
    \/ \E c \in Range(tt) : ShareSlot(C(c), C(course_map(no)))

AddStep ==
    AddRead =>
        IF MustReject(current_courses, last_cmd'.no)
        THEN last_cmd'.result # "added" /\ current_courses' = current_courses
        ELSE /\ last_cmd'.result = "added"
             /\ current_courses' = Append(current_courses, course_map(last_cmd'.no))

\* C26: during an edit session the working timetable is pairwise conflict-free
\* and holds no course id twice, whatever add and rm commands were given, and
\* an add of an id that is already present, unknown, or in conflict with a member
\* is rejected and leaves the working timetable unchanged
C26_EditSound == []WorkingTimetableSound /\ [][AddStep]_vars

\* an add has been rejected for a conflict in a session that had already
\* changed the selected candidate
C26_Witness ==
    /\ pc = "edit"
    /\ last_cmd.cmd = "add"
    /\ last_cmd.result = "conflict"
    /\ current_courses # unique_candidates[selected]
    /\ Len(current_courses) >= 2

====
